---- MODULE Spec2Model ----
(***************************************************************************)
(* A model of ask.py: a straight-line script that reads a model name and a *)
(* prompt from sys.argv, sends one chat completion request through a       *)
(* client bound to a fixed local proxy, and prints the first choice's text *)
(* or the text of the exception it caught.                                 *)
(*                                                                         *)
(* The script is modelled statement by statement; pc is the statement the  *)
(* interpreter executes next.  The endpoint is the environment: while the  *)
(* call of line 21 is in flight it either returns a response object or     *)
(* raises.  Optional values (no response yet, no exception, still running) *)
(* are sequences of length 0 or 1.                                         *)
(***************************************************************************)
EXTENDS Integers, Sequences, FiniteSets, TLC

VARIABLES
    argv,        \* sys.argv: program name followed by the arguments
    env,         \* os.environ (imported at line 2, never read)
    pc,          \* next statement
    client,      \* <<>> before line 6, <<configuration>> after
    model_name,  \* line 15
    user_prompt, \* line 16
    stdout,      \* lines written by print
    stderr,      \* lines written by the interpreter for an uncaught exception
    requests,    \* calls of client.chat.completions.create, in order
    response,    \* <<>> or <<the object the call returned>>
    exc,         \* <<>> or <<the exception being propagated>>
    exit_code,   \* <<>> while running, <<code>> once the process has ended
    events       \* history: the observable events of the run, in order

vars == <<argv, env, pc, client, model_name, user_prompt, stdout, stderr,
          requests, response, exc, exit_code, events>>

-----------------------------------------------------------------------------
(* Bounds of the model. *)

\* most arguments after the program name
MaxArgs == 3
\* most choices in a returned response
MaxChoices == 2

ProgramName == "ask.py"
ArgValues == {"gpt-4", " hi ", ""}
Contents == {"hello", "bye"}
EnvValues == {"", "http://example.invalid:9"}

SeqsUpTo(S, n) == UNION {[1..k -> S] : k \in 0..n}

-----------------------------------------------------------------------------
(* Python helpers. *)

\* s[i] with Python's zero-based index
PyIndex(s, i) == s[i + 1]

\* str(e)
Str(e) == e.msg

-----------------------------------------------------------------------------
(* The text the script prints. *)

UsageText == "Usage: python ask.py <model_name> \"<your_prompt>\""

StatusLine(m) == "--- Querying Model: " \o m \o " ---"

ErrorPrefix == "An error occurred: "

ErrorLine(e) == ErrorPrefix \o Str(e)

-----------------------------------------------------------------------------
(* The client of lines 6-9. *)

ClientConfigFromEnv ==
    [api_key  |-> IF env.OPENAI_API_KEY = "" THEN "sk-litellm-master-key"
                  ELSE env.OPENAI_API_KEY,
     base_url |-> IF env.OPENAI_BASE_URL = "" THEN "http://localhost:4000"
                  ELSE env.OPENAI_BASE_URL]

ClientConfig ==
    [api_key |-> "sk-litellm-master-key", base_url |-> "http://localhost:4000"]

-----------------------------------------------------------------------------
(* The argument check of line 11. *)

TooFewArgsOffByOne == Len(argv) < 4

TooFewArgs == Len(argv) < 3

-----------------------------------------------------------------------------
(* The request of lines 21-26. *)

MessagesFromModel(m, p) == <<[role |-> "user", content |-> m]>>

Messages(m, p) == <<[role |-> "user", content |-> p]>>

CreateCall(c, m, p) ==
    [base_url |-> c.base_url, api_key |-> c.api_key,
     model |-> m, messages |-> Messages(m, p)]

-----------------------------------------------------------------------------
(* What the endpoint can do with a request. *)

\* a response object; has_choices is FALSE when the body carried no choices
\* field at all
Responses ==
    {[has_choices |-> TRUE, choices |-> cs] : cs \in SeqsUpTo(Contents, MaxChoices)}
    \cup {[has_choices |-> FALSE, choices |-> <<>>]}

\* what the call raises: no connection, or a status outside 2xx
RequestErrors ==
    {[class |-> "APIConnectionError", msg |-> "Connection error."],
     [class |-> "AuthenticationError", msg |-> "Error code: 401"],
     [class |-> "InternalServerError", msg |-> "Error code: 500"]}

\* the classes derived from Exception among those the model raises
ExceptionClasses ==
    {"APIConnectionError", "AuthenticationError", "InternalServerError",
     "IndexError", "TypeError"}

-----------------------------------------------------------------------------
(* response.choices[0].message.content, line 27. *)

ExtractDefaultsToEmpty(r) ==
    IF r.has_choices /\ Len(r.choices) >= 1
    THEN [ok |-> TRUE, value |-> PyIndex(r.choices, 0)]
    ELSE [ok |-> TRUE, value |-> ""]

ExtractLastChoice(r) ==
    IF ~r.has_choices
    THEN [ok |-> FALSE,
          error |-> [class |-> "TypeError",
                     msg |-> "'NoneType' object is not subscriptable"]]
    ELSE IF Len(r.choices) = 0
    THEN [ok |-> FALSE,
          error |-> [class |-> "IndexError", msg |-> "list index out of range"]]
    ELSE [ok |-> TRUE, value |-> r.choices[Len(r.choices)]]

Extract(r) ==
    IF ~r.has_choices
    THEN [ok |-> FALSE,
          error |-> [class |-> "TypeError",
                     msg |-> "'NoneType' object is not subscriptable"]]
    ELSE IF Len(r.choices) = 0
    THEN [ok |-> FALSE,
          error |-> [class |-> "IndexError", msg |-> "list index out of range"]]
    ELSE [ok |-> TRUE, value |-> PyIndex(r.choices, 0)]

-----------------------------------------------------------------------------
(* except Exception, line 28. *)

CatchesOnlyAPIErrors(e) ==
    e.class \in {"APIConnectionError", "AuthenticationError", "InternalServerError"}

Catches(e) == e.class \in ExceptionClasses

-----------------------------------------------------------------------------
(* The state at process start. *)

Init ==
    /\ argv \in {<<ProgramName>> \o a : a \in SeqsUpTo(ArgValues, MaxArgs)}
    /\ env \in [{"OPENAI_API_KEY", "OPENAI_BASE_URL"} -> EnvValues]
    /\ pc = "construct"
    /\ client = <<>>
    /\ model_name = ""
    /\ user_prompt = ""
    /\ stdout = <<>>
    /\ stderr = <<>>
    /\ requests = <<>>
    /\ response = <<>>
    /\ exc = <<>>
    /\ exit_code = <<>>
    /\ events = <<>>

-----------------------------------------------------------------------------
(* The statements. *)

\* lines 6-9
ConstructClient ==
    /\ pc = "construct"
    /\ client' = <<ClientConfig>>
    /\ pc' = "check_args"
    /\ UNCHANGED <<argv, env, model_name, user_prompt, stdout, stderr,
                   requests, response, exc, exit_code, events>>

UsageExitSilent ==
    /\ pc = "check_args"
    /\ TooFewArgs
    /\ exit_code' = <<1>>
    /\ pc' = "exited"
    /\ UNCHANGED <<argv, env, client, model_name, user_prompt, stdout, stderr,
                   requests, response, exc, events>>

\* lines 11-13
UsageExit ==
    /\ pc = "check_args"
    /\ TooFewArgs
    /\ stdout' = Append(stdout, UsageText)
    /\ events' = Append(events, "usage")
    /\ exit_code' = <<1>>
    /\ pc' = "exited"
    /\ UNCHANGED <<argv, env, client, model_name, user_prompt, stderr,
                   requests, response, exc>>

\* lines 11, 15-16
ReadArgs ==
    /\ pc = "check_args"
    /\ ~TooFewArgs
    /\ model_name' = PyIndex(argv, 1)
    /\ user_prompt' = PyIndex(argv, 2)
    /\ pc' = "status"
    /\ UNCHANGED <<argv, env, client, stdout, stderr, requests, response, exc,
                   exit_code, events>>

PrintStatusOfPrompt ==
    /\ pc = "status"
    /\ stdout' = Append(stdout, StatusLine(user_prompt))
    /\ events' = Append(events, "status")
    /\ pc' = "create"
    /\ UNCHANGED <<argv, env, client, model_name, user_prompt, stderr,
                   requests, response, exc, exit_code>>

\* line 18
PrintStatus ==
    /\ pc = "status"
    /\ stdout' = Append(stdout, StatusLine(model_name))
    /\ events' = Append(events, "status")
    /\ pc' = "create"
    /\ UNCHANGED <<argv, env, client, model_name, user_prompt, stderr,
                   requests, response, exc, exit_code>>

\* lines 21-26: the call is made and the script blocks in it
SendRequest ==
    /\ pc = "create"
    /\ requests' = Append(requests, CreateCall(client[1], model_name, user_prompt))
    /\ events' = Append(events, "request")
    /\ pc' = "awaiting"
    /\ UNCHANGED <<argv, env, client, model_name, user_prompt, stdout, stderr,
                   response, exc, exit_code>>

\* line 21: the call returns a response object
RequestReturns ==
    /\ pc = "awaiting"
    /\ \E r \in Responses : response' = <<r>>
    /\ events' = Append(events, "complete")
    /\ pc' = "print_content"
    /\ UNCHANGED <<argv, env, client, model_name, user_prompt, stdout, stderr,
                   requests, exc, exit_code>>

\* line 21: the call raises
RequestRaises ==
    /\ pc = "awaiting"
    /\ \E e \in RequestErrors : exc' = <<e>>
    /\ events' = Append(events, "complete")
    /\ pc' = "raised"
    /\ UNCHANGED <<argv, env, client, model_name, user_prompt, stdout, stderr,
                   requests, response, exit_code>>

\* line 27, the first choice's content is there
PrintResponse ==
    /\ pc = "print_content"
    /\ Extract(response[1]).ok
    /\ stdout' = Append(stdout, Extract(response[1]).value)
    /\ events' = Append(events, "print_response")
    /\ pc' = "end"
    /\ UNCHANGED <<argv, env, client, model_name, user_prompt, stderr,
                   requests, response, exc, exit_code>>

\* line 27, evaluating the argument of print raises
ExtractRaises ==
    /\ pc = "print_content"
    /\ ~Extract(response[1]).ok
    /\ exc' = <<Extract(response[1]).error>>
    /\ pc' = "raised"
    /\ UNCHANGED <<argv, env, client, model_name, user_prompt, stdout, stderr,
                   requests, response, exit_code, events>>

HandleExceptionRetry ==
    /\ pc = "raised"
    /\ IF Len(requests) < 2
       THEN /\ pc' = "create"
            /\ exc' = <<>>
            /\ UNCHANGED <<stdout, stderr, exit_code, events>>
       ELSE /\ stdout' = Append(stdout, ErrorLine(exc[1]))
            /\ events' = Append(events, "print_error")
            /\ pc' = "end"
            /\ UNCHANGED <<stderr, exit_code, exc>>
    /\ UNCHANGED <<argv, env, client, model_name, user_prompt, requests, response>>

HandleExceptionExit1 ==
    /\ pc = "raised"
    /\ stdout' = Append(stdout, ErrorLine(exc[1]))
    /\ events' = Append(events, "print_error")
    /\ exit_code' = <<1>>
    /\ pc' = "exited"
    /\ UNCHANGED <<argv, env, client, model_name, user_prompt, stderr,
                   requests, response, exc>>

\* lines 28-29; an exception the clause does not match ends the process with
\* a traceback and exit code 1
HandleException ==
    /\ pc = "raised"
    /\ IF Catches(exc[1])
       THEN /\ stdout' = Append(stdout, ErrorLine(exc[1]))
            /\ events' = Append(events, "print_error")
            /\ pc' = "end"
            /\ UNCHANGED <<stderr, exit_code>>
       ELSE /\ stderr' = Append(stderr, "Traceback (most recent call last):")
            /\ events' = Append(events, "uncaught")
            /\ exit_code' = <<1>>
            /\ pc' = "exited"
            /\ UNCHANGED stdout
    /\ UNCHANGED <<argv, env, client, model_name, user_prompt, requests,
                   response, exc>>

\* the end of the file, after line 29
Finish ==
    /\ pc = "end"
    /\ exit_code' = <<0>>
    /\ pc' = "exited"
    /\ UNCHANGED <<argv, env, client, model_name, user_prompt, stdout, stderr,
                   requests, response, exc, events>>

Next ==
    \/ ConstructClient
    \/ UsageExit
    \/ ReadArgs
    \/ PrintStatus
    \/ SendRequest
    \/ RequestReturns
    \/ RequestRaises
    \/ PrintResponse
    \/ ExtractRaises
    \/ HandleException
    \/ Finish

Spec == Init /\ [][Next]_vars

-----------------------------------------------------------------------------
(* Vocabulary of the properties. *)

\* arguments after the program name
NArgs == Len(argv) - 1

Exited == pc = "exited"

\* a response whose first choice's text can be read
WellFormed(r) == r.has_choices /\ Len(r.choices) >= 1

StartsWith(s, p) == Len(s) >= Len(p) /\ SubSeq(s, 1, Len(p)) = p

IsPrefix(s, t) == Len(s) <= Len(t) /\ \A i \in 1..Len(s) : s[i] = t[i]

Occurs(ev) == \E i \in 1..Len(events) : events[i] = ev

PrintEvents == {"usage", "status", "print_response", "print_error"}

Printed == Cardinality({i \in 1..Len(events) : events[i] \in PrintEvents})

SuccessOrder == <<"status", "request", "complete", "print_response">>

FailureOrder == <<"status", "request", "complete", "print_error">>

-----------------------------------------------------------------------------
(* Properties. *)

\* C1: a run with zero or one argument after the program name executes
\* nothing beyond the argument check, and ends having printed the usage
\* message to standard output with exit code 1.
C1_UsageAndExit1 ==
    NArgs < 2 =>
        /\ pc \in {"construct", "check_args", "exited"}
        /\ Exited => stdout = <<UsageText>> /\ exit_code = <<1>>

C1_Witness ==
    Exited /\ NArgs = 1 /\ stdout = <<UsageText>> /\ exit_code = <<1>>

\* C2: a run with at least two arguments whose request returned a response
\* with a readable first choice ends with standard output being the status
\* line followed by exactly the text of the first choice, and nothing else.
C2_PrintsFirstChoice ==
    (Exited /\ NArgs >= 2 /\ response # <<>> /\ WellFormed(response[1])) =>
        stdout = <<StatusLine(argv[2]), response[1].choices[1]>>

C2_Witness ==
    /\ Exited
    /\ response = <<[has_choices |-> TRUE, choices |-> <<"hello", "bye">>]>>
    /\ stdout = <<StatusLine(argv[2]), "hello">>

\* C3: in a run with at least two arguments every failure of the
\* request/response cycle (the call raises, or the response has no first
\* choice) is caught: the run ends without a traceback, and standard output
\* holds, after the status line, a line that starts with
\* "An error occurred: " and continues with the text of the exception.
C3_FailureCaughtAndPrinted ==
    (Exited /\ NArgs >= 2) =>
        /\ (response # <<>> /\ ~WellFormed(response[1])) => exc # <<>>
        /\ response = <<>> => exc # <<>>
        /\ exc # <<>> =>
            /\ stderr = <<>>
            /\ ~Occurs("uncaught")
            /\ Len(stdout) = 2
            /\ StartsWith(stdout[2], ErrorPrefix)
            /\ stdout[2] = ErrorPrefix \o exc[1].msg

C3_Witness ==
    /\ Exited
    /\ exc # <<>>
    /\ exc[1].class = "IndexError"
    /\ stdout[2] = "An error occurred: list index out of range"

\* C4: the exit code is 1 exactly when fewer than two arguments were
\* supplied; every other run, the runs that print the error message
\* included, ends with exit code 0.
C4_ExitCode ==
    Exited =>
        /\ exit_code = <<1>> <=> NArgs < 2
        /\ NArgs >= 2 => exit_code = <<0>>

C4_Witness ==
    /\ Exited
    /\ exc # <<>>
    /\ exc[1].class = "APIConnectionError"
    /\ Occurs("print_error")
    /\ exit_code = <<0>>

\* C5: the messages of every request sent are one element, with role "user"
\* and content equal to the second argument verbatim, whatever the model
\* name and the further arguments.
C5_SingleUserMessage ==
    \A i \in 1..Len(requests) :
        /\ Len(requests[i].messages) = 1
        /\ requests[i].messages[1].role = "user"
        /\ requests[i].messages[1].content = argv[3]
        /\ requests[i].model = argv[2]

C5_Witness ==
    /\ Len(requests) = 1
    /\ Len(argv) = 4
    /\ argv[2] = "gpt-4"
    /\ argv[3] = " hi "
    /\ requests[1].messages = <<[role |-> "user", content |-> " hi "]>>

\* C6: every request sent targets http://localhost:4000 with the hardcoded
\* credential, whatever the model name, the prompt and the environment.
C6_FixedTargetAndCredential ==
    \A i \in 1..Len(requests) :
        /\ requests[i].base_url = "http://localhost:4000"
        /\ requests[i].api_key = "sk-litellm-master-key"

C6_Witness ==
    /\ Len(requests) = 1
    /\ env.OPENAI_BASE_URL # ""
    /\ env.OPENAI_API_KEY # ""
    /\ requests[1].base_url = "http://localhost:4000"

C8_EventOrder ==
    NArgs >= 2 =>
        /\ IsPrefix(events, SuccessOrder) \/ IsPrefix(events, FailureOrder)
        /\ Len(stdout) = Printed
        /\ Len(stdout) >= 1 => stdout[1] = StatusLine(argv[2])
        /\ pc \in {"awaiting", "print_content", "raised"}
               => stdout = <<StatusLine(argv[2])>>
        /\ Exited => Len(events) = 4

C8_Witness ==
    /\ Exited
    /\ events = SuccessOrder
    /\ argv[2] # argv[3]
    /\ Len(stdout) = 2

\* C9: a run with fewer than two arguments sends no request and prints
\* nothing but the usage message; a run with two or more arguments never
\* prints the usage message.
C9_UsageOnlyFrame ==
    /\ NArgs < 2 =>
        /\ requests = <<>>
        /\ response = <<>>
        /\ exc = <<>>
        /\ stderr = <<>>
        /\ events \in {<<>>, <<"usage">>}
        /\ stdout \in {<<>>, <<UsageText>>}
        /\ Exited => stdout = <<UsageText>>
    /\ NArgs >= 2 =>
        /\ ~Occurs("usage")
        /\ \A i \in 1..Len(stdout) : stdout[i] # UsageText

C9_Witness ==
    /\ Exited
    /\ NArgs = 0
    /\ stdout = <<UsageText>>
    /\ requests = <<>>

\* C10: a run with at least two arguments ends having printed, after the
\* status line, exactly one outcome: the response text or the line starting
\* with "An error occurred: ", never both and never neither; a response
\* whose first choice cannot be read yields the error line.
C10_ExactlyOneOutcome ==
    (Exited /\ NArgs >= 2) =>
        /\ Occurs("print_response") # Occurs("print_error")
        /\ Cardinality({i \in 1..Len(events) :
                           events[i] \in {"print_response", "print_error"}}) = 1
        /\ Len(stdout) = 2
        /\ Occurs("print_response") =>
               /\ exc = <<>>
               /\ response # <<>>
               /\ WellFormed(response[1])
               /\ stdout[2] = response[1].choices[1]
        /\ Occurs("print_error") =>
               /\ exc # <<>>
               /\ StartsWith(stdout[2], ErrorPrefix)
        /\ (response # <<>> /\ ~WellFormed(response[1])) =>
               /\ Occurs("print_error")
               /\ ~Occurs("print_response")

C10_Witness ==
    /\ Exited
    /\ response = <<[has_choices |-> TRUE, choices |-> <<>>]>>
    /\ Occurs("print_error")
    /\ ~Occurs("print_response")
    /\ StartsWith(stdout[2], ErrorPrefix)

====
